---- MODULE Spec2Model ----
(***************************************************************************)
(* QR-Management: the serial allocator of QR_Generator.py (generators,     *)
(* the three modes of main, the ledger) and the grid layout of             *)
(* Label_layout_printer.py (create_label_pdf).                             *)
(*                                                                         *)
(* Strings are sequences of code points ('A' = 65 .. 'Z' = 90,             *)
(* 'a' = 97 .. 'z' = 122, ' ' = 32, '1' = 49), so that Python's string     *)
(* comparison, upper() and strip() are modelled by what they do.           *)
(* Lengths of the layout are integers in tenths of a millimetre; points    *)
(* are integers in millionths of a point (1 mm = 2.83465 pt, so one tenth  *)
(* of a millimetre is 283465 millionths of a point).                       *)
(***************************************************************************)
EXTENDS Integers, Sequences, FiniteSets, TLC

VARIABLES
    \* ---- QR_Generator.py ----
    pc,               \* position of main (or of the generator driver)
    mode,             \* the mode string read by main: "1", "2", "3" or other
    start,            \* start serial: the typed line, then (after Load) its strip().upper()
    end,              \* end serial of mode 1, likewise
    count,            \* [ok, val]: the count typed in mode 2, ok = int() parsed it
    create,           \* [ok, rows]: the 'Create' sheet, ok = file, sheet and headers fine
    ledger,           \* column A of the 'Generated' sheet, below the header
    ledger0,          \* the ledger as it was before the run (history)
    existing_serials, \* the set load_existing_serials returned
    new_data,         \* serials of the rows main collected for save_to_excel
    rendered,         \* serials for which generate_qr_with_text wrote a file
    gen,              \* the generator object
    serial,           \* loop variable of main
    attempts,         \* attempts counter of mode 2
    row,              \* index of the next 'Create' row of mode 3
    errors,           \* the [ERROR] messages printed so far
    emitted,          \* codes a generator yielded to its consumer (history)
    \* ---- Label_layout_printer.py ----
    cfg,              \* arguments of create_label_pdf
    folder,           \* os.listdir(img_folder): the extension of each file, in listing order
    images,           \* the eligible file names, in listing order
    image_index, x, y,\* loop variables of create_label_pdf
    pages,            \* number of showPage calls
    drawn,            \* the drawImage calls so far
    saved             \* c.save() was called

vars == <<pc, mode, start, end, count, create, ledger, ledger0, existing_serials,
          new_data, rendered, gen, serial, attempts, row, errors, emitted,
          cfg, folder, images, image_index, x, y, pages, drawn, saved>>

qrVars  == <<mode, start, end, count, create, ledger, ledger0, existing_serials,
             new_data, rendered, gen, serial, attempts, row, errors, emitted>>
pdfVars == <<cfg, folder, images, image_index, x, y, pages, drawn, saved>>

\* ------------------------------------------------------------------ strings

Str1(a)       == <<a>>
Str2(a, b)    == <<a, b>>
Str3(a, b, c) == <<a, b, c>>

\* str.upper()
Upper(s) == [i \in 1..Len(s) |-> IF s[i] >= 97 /\ s[i] <= 122 THEN s[i] - 32 ELSE s[i]]

\* str.strip(), for blanks
RECURSIVE LStrip(_)
LStrip(s) == IF Len(s) > 0 /\ s[1] = 32 THEN LStrip(SubSeq(s, 2, Len(s))) ELSE s
RECURSIVE RStrip(_)
RStrip(s) == IF Len(s) > 0 /\ s[Len(s)] = 32 THEN RStrip(SubSeq(s, 1, Len(s) - 1)) ELSE s
Strip(s) == RStrip(LStrip(s))

\* Python's s < t on strings: by code point, a proper prefix is smaller
RECURSIVE StrLess(_, _)
StrLess(s, t) ==
    IF Len(t) = 0 THEN FALSE
    ELSE IF Len(s) = 0 THEN TRUE
    ELSE IF s[1] # t[1] THEN s[1] < t[1]
    ELSE StrLess(SubSeq(s, 2, Len(s)), SubSeq(t, 2, Len(t)))

StrGreater(s, t) == StrLess(t, s)

\* ------------------------------------------------------------------ generators

charset == 65..90                       \* string.ascii_uppercase
NoCount == 0 - 1                        \* count = None

\* number of tuples of itertools.product(charset, repeat=length)
ProductSize(length) == Cardinality(charset) ^ length

\* a product that varies the first letter fastest
ProductAt_FirstFastest(i, length) ==
    [k \in 1..length |-> 65 + ((i \div (Cardinality(charset) ^ (k - 1))) % Cardinality(charset))]

\* the i-th tuple (0-based) of itertools.product(charset, repeat=length), joined
ProductAt(i, length) ==
    [k \in 1..length |-> 65 + ((i \div (Cardinality(charset) ^ (length - k))) % Cardinality(charset))]

\* a generator object that has not run yet
NewGenerator(s, c) ==
    [start |-> s, length |-> Len(s), count |-> c, idx |-> 0,
     skipping |-> TRUE, generated |-> 0, finished |-> FALSE]

\* the for loop over all_serials: the index of the next tuple that is yielded,
\* i.e. the first one not skipped, or ProductSize when the product runs out
ScanFrom(g) ==
    LET total == ProductSize(g.length)
        hits  == IF g.skipping
                 THEN {i \in g.idx..(total - 1) : ProductAt(i, g.length) = g.start}
                 ELSE {i \in {g.idx} : i < total}
    IN  IF hits = {} THEN total
        ELSE CHOOSE i \in hits : \A j \in hits : i <= j

\* next(serial_generator(start, count)): [g, ok, val], ok = FALSE is StopIteration
SerialGeneratorNext(g) ==
    IF g.finished
    THEN [g |-> g, ok |-> FALSE, val |-> <<>>]
    ELSE IF g.generated > 0 /\ g.count # NoCount /\ g.generated >= g.count
    THEN [g |-> [g EXCEPT !.finished = TRUE], ok |-> FALSE, val |-> <<>>]
    ELSE LET i == ScanFrom(g) IN
         IF i >= ProductSize(g.length)
         THEN [g |-> [g EXCEPT !.finished = TRUE, !.idx = i], ok |-> FALSE, val |-> <<>>]
         ELSE [g |-> [g EXCEPT !.idx = i + 1, !.skipping = FALSE,
                                !.generated = g.generated + 1],
               ok |-> TRUE, val |-> ProductAt(i, g.length)]

\* next(serial_generator_open_ended(start))
SerialGeneratorOpenEndedNext(g) ==
    IF g.finished
    THEN [g |-> g, ok |-> FALSE, val |-> <<>>]
    ELSE LET i == ScanFrom(g) IN
         IF i >= ProductSize(g.length)
         THEN [g |-> [g EXCEPT !.finished = TRUE, !.idx = i], ok |-> FALSE, val |-> <<>>]
         ELSE [g |-> [g EXCEPT !.idx = i + 1, !.skipping = FALSE],
               ok |-> TRUE, val |-> ProductAt(i, g.length)]

\* ------------------------------------------------------------------ main

max_attempts == 10000

Serials(seq) == {seq[i] : i \in 1..Len(seq)}

\* load_existing_serials(): column A of the rows below the header, as a set
LoadExistingSerials(sheet) == Serials(sheet)

\* a range that stops at end instead of after it
PastEnd_Inclusive(s, e) == ~StrLess(s, e)

\* "if serial > end"
PastEnd(s, e) == StrGreater(s, e)

\* a collision check that never finds the serial
AlreadyExists_Never(s, existing) == FALSE

\* "if serial in existing_serials"
AlreadyExists(s, existing) == s \in existing

\* generate_qr_with_text(serial) writes <serial>.png; new_data.append(...)
Accept ==
    /\ rendered' = rendered \cup {serial'}
    /\ new_data' = Append(new_data, serial')

Skip == UNCHANGED <<rendered, new_data>>

\* main, from the mode prompt to the loop of the chosen mode
Load ==
    /\ pc = "main"
    /\ existing_serials' = LoadExistingSerials(ledger)
    /\ new_data' = <<>>
    /\ start' = Upper(Strip(start))
    /\ end' = Upper(Strip(end))
    /\ IF mode = "1"
       THEN /\ gen' = NewGenerator(start', NoCount)
            /\ pc' = "range"
            /\ UNCHANGED <<attempts, row, errors>>
       ELSE IF mode = "2"
       THEN IF ~count.ok
            THEN /\ errors' = errors \cup {"Invalid count"}
                 /\ pc' = "returned"
                 /\ UNCHANGED <<gen, attempts, row>>
            ELSE /\ gen' = NewGenerator(start', NoCount)
                 /\ attempts' = 0
                 /\ pc' = "open"
                 /\ UNCHANGED <<row, errors>>
       ELSE IF mode = "3"
       THEN IF ~create.ok
            THEN /\ errors' = errors \cup {"Create sheet"}
                 /\ pc' = "returned"
                 /\ UNCHANGED <<gen, attempts, row>>
            ELSE /\ row' = 1
                 /\ pc' = "sheet"
                 /\ UNCHANGED <<gen, attempts, errors>>
       ELSE /\ errors' = errors \cup {"Invalid mode"}
            /\ pc' = "returned"
            /\ UNCHANGED <<gen, attempts, row>>
    /\ UNCHANGED <<mode, count, create, ledger, ledger0, rendered, serial, emitted>>
    /\ UNCHANGED pdfVars

\* mode 1: one iteration of "for serial in generator"
RangeIter ==
    /\ pc = "range"
    /\ LET r == SerialGeneratorNext(gen) IN
       /\ gen' = r.g
       /\ IF ~r.ok
          THEN /\ pc' = "save"
               /\ UNCHANGED <<serial, rendered, new_data>>
          ELSE /\ serial' = r.val
               /\ IF PastEnd(serial', end)
                  THEN pc' = "save" /\ Skip
                  ELSE IF AlreadyExists(serial', existing_serials)
                  THEN pc' = "range" /\ Skip
                  ELSE pc' = "range" /\ Accept
    /\ UNCHANGED <<mode, start, end, count, create, ledger, ledger0, existing_serials,
                   attempts, row, errors, emitted>>
    /\ UNCHANGED pdfVars

\* mode 2: the test and one iteration of "while len(new_data) < count"
OpenIter ==
    /\ pc = "open"
    /\ IF ~(Len(new_data) < count.val)
       THEN /\ pc' = "save"
            /\ UNCHANGED <<gen, serial, attempts, rendered, new_data, errors>>
       ELSE LET r == SerialGeneratorOpenEndedNext(gen) IN
            /\ gen' = r.g
            /\ IF ~r.ok
               THEN /\ pc' = "crashed"          \* StopIteration leaves main
                    /\ UNCHANGED <<serial, attempts, rendered, new_data, errors>>
               ELSE /\ serial' = r.val
                    /\ attempts' = attempts + 1
                    /\ IF AlreadyExists(serial', existing_serials)
                       THEN pc' = "open" /\ Skip /\ UNCHANGED errors
                       ELSE /\ Accept
                            /\ IF attempts' >= max_attempts
                               THEN /\ errors' = errors \cup {"Too many attempts"}
                                    /\ pc' = "save"
                               ELSE /\ pc' = "open"
                                    /\ UNCHANGED errors
    /\ UNCHANGED <<mode, start, end, count, create, ledger, ledger0, existing_serials,
                   row, emitted>>
    /\ UNCHANGED pdfVars

\* mode 3: one row of the 'Create' sheet
SheetIter ==
    /\ pc = "sheet"
    /\ IF row > Len(create.rows)
       THEN /\ pc' = "save"
            /\ UNCHANGED <<serial, row, rendered, new_data>>
       ELSE /\ serial' = IF Len(create.rows[row]) > 0
                         THEN Upper(Strip(create.rows[row])) ELSE <<>>
            /\ row' = row + 1
            /\ pc' = "sheet"
            /\ IF Len(serial') = 0 \/ AlreadyExists(serial', existing_serials)
               THEN Skip
               ELSE Accept
    /\ UNCHANGED <<mode, start, end, count, create, ledger, ledger0, existing_serials,
                   gen, attempts, errors, emitted>>
    /\ UNCHANGED pdfVars

\* save_to_excel(new_data): the rows go below the rows of the sheet
SaveToExcel(sheet, rows) == sheet \o rows

\* the end of main: save_to_excel inside try/except
Save ==
    /\ pc = "save"
    /\ pc' = "done"
    /\ IF Len(new_data) > 0
       THEN \E written \in BOOLEAN :
               IF written
               THEN ledger' = SaveToExcel(ledger, new_data) /\ UNCHANGED errors
               ELSE errors' = errors \cup {"Failed to save"} /\ UNCHANGED ledger
       ELSE UNCHANGED <<ledger, errors>>
    /\ UNCHANGED <<mode, start, end, count, create, ledger0, existing_serials, new_data,
                   rendered, gen, serial, attempts, row, emitted>>
    /\ UNCHANGED pdfVars

\* ------------------------------------------------------------------ runs of main

MaxCount == 3        \* largest count typed in mode 2
MaxRows  == 2        \* most rows of the 'Create' sheet

\* typed start and end serials: "", "Y", "ZX", " yy ", "1" and "", "Z", "YZ", "zy", "ZZZ", "ZA "
StartInputs == {<<>>, Str1(89), Str2(90, 88), <<32, 121, 121, 32>>, Str1(49)}
EndInputs   == {<<>>, Str1(90), Str2(89, 90), Str2(122, 121), Str3(90, 90, 90), <<90, 65, 32>>}

\* serials a ledger may hold before the run: "Z", "YZ", "ZX", "ZY", "ZZ"
LedgerPool == <<Str1(90), Str2(89, 90), Str2(90, 88), Str2(90, 89), Str2(90, 90)>>

\* the entries of seq at the positions in S, in order
RECURSIVE Pick(_, _, _)
Pick(seq, S, i) ==
    IF i > Len(seq) THEN <<>>
    ELSE (IF i \in S THEN <<seq[i]>> ELSE <<>>) \o Pick(seq, S, i + 1)

Ledgers == {Pick(LedgerPool, S, 1) : S \in SUBSET (1..Len(LedgerPool))}

\* cells of column A of the 'Create' sheet: empty, "ZY", "zy ", "ZZ", " "
CreateCells == {<<>>, Str2(90, 89), <<122, 121, 32>>, Str2(90, 90), Str1(32)}

RECURSIVE SeqsUpTo(_, _)
SeqsUpTo(S, n) ==
    IF n = 0 THEN {<<>>}
    ELSE LET shorter == SeqsUpTo(S, n - 1)
         IN  shorter \cup {Append(q, e) : q \in shorter, e \in S}

NoCountTyped == [ok |-> FALSE, val |-> 0]
NoCreate     == [ok |-> FALSE, rows |-> <<>>]
NoCfg        == [lbl_width |-> 0, lbl_height |-> 0, lbls_x |-> 0, lbls_y |-> 0,
                 mgn_left |-> 0, mgn_top |-> 0, spc_x |-> 0, spc_y |-> 0]

PdfIdle ==
    /\ cfg = NoCfg
    /\ folder = <<>>
    /\ images = <<>>
    /\ image_index = 0
    /\ x = 0
    /\ y = 0
    /\ pages = 0
    /\ drawn = <<>>
    /\ saved = FALSE

\* main before the ledger is loaded, with what the user typed
MainStart ==
    /\ pc = "main"
    /\ ledger0 = ledger
    /\ existing_serials = {}
    /\ new_data = <<>>
    /\ rendered = {}
    /\ gen = NewGenerator(<<>>, NoCount)
    /\ serial = <<>>
    /\ attempts = 0
    /\ row = 0
    /\ errors = {}
    /\ emitted = <<>>
    /\ PdfIdle

Init ==
    /\ ledger \in Ledgers
    /\ \/ /\ mode = "1"
          /\ start \in StartInputs
          /\ end \in EndInputs
          /\ count = NoCountTyped
          /\ create = NoCreate
       \/ /\ mode = "2"
          /\ start \in StartInputs
          /\ end = <<>>
          /\ count \in {NoCountTyped} \cup {[ok |-> TRUE, val |-> n] : n \in (0 - 1)..MaxCount}
          /\ create = NoCreate
       \/ /\ mode = "3"
          /\ start = <<>>
          /\ end = <<>>
          /\ count = NoCountTyped
          /\ create \in {NoCreate} \cup {[ok |-> TRUE, rows |-> r] : r \in SeqsUpTo(CreateCells, MaxRows)}
       \/ /\ mode = "9"
          /\ start = <<>>
          /\ end = <<>>
          /\ count = NoCountTyped
          /\ create = NoCreate
    /\ MainStart

Next == Load \/ RangeIter \/ OpenIter \/ SheetIter \/ Save

Spec == Init /\ [][Next]_vars

\* ---- runs of mode 2 near the attempt ceiling
\*
\* A run that reaches the ceiling makes max_attempts iterations and carries
\* lists of that size.  SpecCeilingFull makes these runs from the start of main;
\* SpecCeiling starts them CeilingLead iterations before the ceiling, in the state
\* the run is in by then (CeilingMidRun, which is an invariant of SpecCeilingFull).

CeilingLead  == 3    \* iterations left before the ceiling where SpecCeiling starts
CeilingSteps == max_attempts - CeilingLead

\* the k codes of length 3 from index s0 on, in product order
Proposed(s0, k) == [i \in 1..k |-> ProductAt(s0 + i - 1, 3)]

\* a ledger holding the last max_attempts + 1 three-letter codes, in order
FullLedger == Proposed(ProductSize(3) - (max_attempts + 1), max_attempts + 1)

\* start "AAA": an empty ledger; a ledger holding only the max_attempts-th candidate;
\* ledgers holding the first n codes.  Start FullLedger[1]: every candidate collides.
CeilingScenarios ==
    {[start |-> Str3(65, 65, 65), ledger |-> <<>>, count |-> c] :
        c \in (max_attempts - 2)..(max_attempts + 2)}
    \cup {[start |-> Str3(65, 65, 65), ledger |-> Proposed(max_attempts - 1, 1), count |-> c] :
        c \in (max_attempts - 2)..(max_attempts + 1)}
    \cup {[start |-> Str3(65, 65, 65), ledger |-> Proposed(0, n), count |-> c] :
        n \in CeilingSteps..(CeilingSteps + 5), c \in 1..3}
    \cup {[start |-> FullLedger[1], ledger |-> FullLedger, count |-> c] : c \in 1..2}

CeilingInputs ==
    /\ mode = "2"
    /\ end = <<>>
    /\ create = NoCreate
    /\ \E sc \in CeilingScenarios :
          /\ start = sc.start
          /\ ledger = sc.ledger
          /\ count = [ok |-> TRUE, val |-> sc.count]

\* index of a three-letter code in the product
CodeIndex(s) == (s[1] - 65) * 676 + (s[2] - 65) * 26 + (s[3] - 65)

\* the state of a mode 2 run after CeilingSteps iterations none of which ended it
CeilingMidRun ==
    /\ pc = "open"
    /\ ledger0 = ledger
    /\ existing_serials = LoadExistingSerials(ledger)
    /\ gen = [NewGenerator(start, NoCount) EXCEPT !.idx = CodeIndex(start) + CeilingSteps,
                                                  !.skipping = FALSE]
    /\ attempts = CeilingSteps
    /\ new_data = SelectSeq(Proposed(CodeIndex(start), CeilingSteps),
                            LAMBDA c : c \notin existing_serials)
    /\ rendered = Serials(new_data)
    /\ serial = ProductAt(CodeIndex(start) + CeilingSteps - 1, 3)
    /\ row = 0
    /\ errors = {}
    /\ emitted = <<>>
    /\ PdfIdle

InitCeiling == CeilingInputs /\ CeilingMidRun

NextCeiling == OpenIter \/ Save

SpecCeiling == InitCeiling /\ [][NextCeiling]_vars

InitCeilingFull == CeilingInputs /\ MainStart

NextCeilingFull == Load \/ OpenIter \/ Save

SpecCeilingFull == InitCeilingFull /\ [][NextCeilingFull]_vars

\* under SpecCeilingFull: the state CeilingSteps iterations into the run is the
\* state SpecCeiling starts in
CeilingMidRunReached ==
    attempts = CeilingSteps => CeilingMidRun

\* ---- the generators on their own: a consumer calling next() until StopIteration

MaxGenCount == 3     \* largest count given to serial_generator

\* "", "A", "AA", "YY", "ZZ", "ZZX"
GenStarts == {<<>>, Str1(65), Str2(65, 65), Str2(89, 89), Str2(90, 90), Str3(90, 90, 88)}

QrIdle ==
    /\ end = <<>>
    /\ count = NoCountTyped
    /\ create = NoCreate
    /\ ledger = <<>>
    /\ ledger0 = <<>>
    /\ existing_serials = {}
    /\ new_data = <<>>
    /\ rendered = {}
    /\ serial = <<>>
    /\ attempts = 0
    /\ row = 0
    /\ errors = {}

InitGen ==
    /\ pc = "gen"
    /\ start \in GenStarts
    /\ \/ /\ mode = "serial_generator"
          /\ \E c \in {NoCount} \cup 0..MaxGenCount : gen = NewGenerator(start, c)
       \/ /\ mode = "serial_generator_open_ended"
          /\ gen = NewGenerator(start, NoCount)
    /\ emitted = <<>>
    /\ QrIdle
    /\ PdfIdle

\* the consumer's next(): what was yielded is appended to emitted
Consume(r) ==
    /\ gen' = r.g
    /\ IF r.ok
       THEN emitted' = Append(emitted, r.val) /\ pc' = "gen"
       ELSE emitted' = emitted /\ pc' = "gen_done"
    /\ UNCHANGED <<mode, start, end, count, create, ledger, ledger0, existing_serials,
                   new_data, rendered, serial, attempts, row, errors>>
    /\ UNCHANGED pdfVars

NextFixed ==
    /\ pc = "gen"
    /\ mode = "serial_generator"
    /\ Consume(SerialGeneratorNext(gen))

NextOpenEnded ==
    /\ pc = "gen"
    /\ mode = "serial_generator_open_ended"
    /\ Consume(SerialGeneratorOpenEndedNext(gen))

NextGen == NextFixed \/ NextOpenEnded

SpecGen == InitGen /\ [][NextGen]_vars

\* ------------------------------------------------------------------ create_label_pdf

PageWidthMm      == 2100         \* 210 mm
PageHeightMm     == 2970         \* 297 mm
BottomSlackMm    == 1            \* 0.1 mm
PointsPerTenthMm == 283465       \* 2.83465 pt per mm
MaxWidthPt       == 595280000    \* 595.28 pt
MaxHeightPt      == 841890000    \* 841.89 pt
page_height      == 841889764    \* A4[1] = 297 * 72 / 25.4 pt

MmToPt(v) == v * PointsPerTenthMm

mgn_right_mm(c) ==
    PageWidthMm - c.mgn_left - c.lbls_x * c.lbl_width - (c.lbls_x - 1) * c.spc_x
mgn_bottom_mm(c) ==
    PageHeightMm - c.mgn_top - c.lbls_y * c.lbl_height - (c.lbls_y - 1) * c.spc_y
        - BottomSlackMm

total_width(c) ==
    MmToPt(c.mgn_left) + c.lbls_x * MmToPt(c.lbl_width) + (c.lbls_x - 1) * MmToPt(c.spc_x)
        + MmToPt(mgn_right_mm(c))
total_height(c) ==
    MmToPt(c.mgn_top) + c.lbls_y * MmToPt(c.lbl_height) + (c.lbls_y - 1) * MmToPt(c.spc_y)
        + MmToPt(mgn_bottom_mm(c))

\* the test that raises ValueError("Layout exceeds A4 dimensions ...")
LayoutExceeds(c) == total_width(c) >= MaxWidthPt \/ total_height(c) >= MaxHeightPt

\* f.lower() on the extensions of the model
LowerExt(e) == IF e = ".JPG" THEN ".jpg" ELSE e
Eligible(e) == LowerExt(e) \in {".jpg", ".jpeg", ".png"}

\* the positions of the listing that are images, in listing order
RECURSIVE ListImages(_, _)
ListImages(dir, i) ==
    IF i > Len(dir) THEN <<>>
    ELSE (IF Eligible(dir[i]) THEN <<i>> ELSE <<>>) \o ListImages(dir, i + 1)

\* bottom-left corner of the label in column cx, row cy
x_pos(c, cx) == MmToPt(c.mgn_left) + cx * (MmToPt(c.lbl_width) + MmToPt(c.spc_x))
y_pos(c, cy) ==
    page_height - MmToPt(c.mgn_top) - (cy + 1) * MmToPt(c.lbl_height) - cy * MmToPt(c.spc_y)

\* margins, validation, listing, and the canvas
PdfValidate ==
    /\ pc = "pdf"
    /\ IF LayoutExceeds(cfg)
       THEN pc' = "raised" /\ UNCHANGED <<images, image_index>>
       ELSE /\ images' = ListImages(folder, 1)
            /\ IF Len(images') = 0
               THEN pc' = "pdf_returned" /\ UNCHANGED image_index
               ELSE pc' = "while" /\ image_index' = 0
    /\ UNCHANGED <<cfg, folder, x, y, pages, drawn, saved>>
    /\ UNCHANGED qrVars

\* a while test that also runs once all images are placed
MoreImages_Inclusive(idx, imgs) == idx <= Len(imgs)

\* "while image_index < len(images)"
MoreImages(idx, imgs) == idx < Len(imgs)

\* the while test, then the page's loops or c.save()
PdfWhile ==
    /\ pc = "while"
    /\ IF MoreImages(image_index, images)
       THEN pc' = "cell" /\ x' = 0 /\ y' = 0 /\ UNCHANGED saved
       ELSE pc' = "pdf_done" /\ saved' = TRUE /\ UNCHANGED <<x, y>>
    /\ UNCHANGED <<cfg, folder, images, image_index, pages, drawn>>
    /\ UNCHANGED qrVars

\* a row that takes one label more than lbls_x
AfterCell_ExtraColumn(idx) ==
    IF x + 1 <= cfg.lbls_x
    THEN pc' = "cell" /\ x' = x + 1 /\ y' = y
    ELSE IF idx >= Len(images)
    THEN pc' = "annotate" /\ UNCHANGED <<x, y>>
    ELSE IF y + 1 < cfg.lbls_y
    THEN pc' = "cell" /\ x' = 0 /\ y' = y + 1
    ELSE pc' = "annotate" /\ UNCHANGED <<x, y>>

\* after the body at (x, y): the next iteration of the two for loops, or their end
AfterCell(idx) ==
    IF x + 1 < cfg.lbls_x
    THEN pc' = "cell" /\ x' = x + 1 /\ y' = y
    ELSE IF idx >= Len(images)
    THEN pc' = "annotate" /\ UNCHANGED <<x, y>>
    ELSE IF y + 1 < cfg.lbls_y
    THEN pc' = "cell" /\ x' = 0 /\ y' = y + 1
    ELSE pc' = "annotate" /\ UNCHANGED <<x, y>>

\* one iteration of "for x in range(lbls_x)" inside "for y in range(lbls_y)"
PdfCell ==
    /\ pc = "cell"
    /\ IF image_index >= Len(images)
       THEN /\ pc' = "annotate"
            /\ UNCHANGED <<x, y, image_index, drawn>>
       ELSE /\ drawn' = Append(drawn, [img |-> images[image_index + 1], page |-> pages,
                                       row |-> y, col |-> x,
                                       x_pos |-> x_pos(cfg, x), y_pos |-> y_pos(cfg, y)])
            /\ image_index' = image_index + 1
            /\ AfterCell(image_index')
    /\ UNCHANGED <<cfg, folder, images, pages, saved>>
    /\ UNCHANGED qrVars

\* the page's annotations and c.showPage()
PdfShowPage ==
    /\ pc = "annotate"
    /\ pages' = pages + 1
    /\ pc' = "while"
    /\ UNCHANGED <<cfg, folder, images, image_index, x, y, drawn, saved>>
    /\ UNCHANGED qrVars

MaxGrid  == 2        \* most columns and most rows of the grid
MaxFiles == 5        \* most files in the image folder

Extensions == {".JPG", ".txt"}

\* the __main__ block's layout: 20 x 15 mm labels, 8 x 15, margins 14.5 / 16, spacing 3
MainCfg == [lbl_width |-> 200, lbl_height |-> 150, lbls_x |-> 8, lbls_y |-> 15,
            mgn_left |-> 145, mgn_top |-> 160, spc_x |-> 30, spc_y |-> 30]

\* two 100 mm labels and a 10 mm margin: a footprint of exactly 210 mm
ExactCfg == [lbl_width |-> 1000, lbl_height |-> 150, lbls_x |-> 2, lbls_y |-> 1,
             mgn_left |-> 100, mgn_top |-> 160, spc_x |-> 0, spc_y |-> 30]

PdfConfigs ==
    {MainCfg, ExactCfg} \cup
    {[lbl_width |-> w, lbl_height |-> h, lbls_x |-> nx, lbls_y |-> ny,
      mgn_left |-> 145, mgn_top |-> 160, spc_x |-> 30, spc_y |-> 30] :
        w \in {200, 1100}, h \in {150, 1500}, nx \in 1..MaxGrid, ny \in 1..MaxGrid}

InitPdf ==
    /\ pc = "pdf"
    /\ cfg \in PdfConfigs
    /\ folder \in SeqsUpTo(Extensions, MaxFiles)
    /\ images = <<>>
    /\ image_index = 0
    /\ x = 0
    /\ y = 0
    /\ pages = 0
    /\ drawn = <<>>
    /\ saved = FALSE
    /\ mode = "pdf"
    /\ start = <<>>
    /\ gen = NewGenerator(<<>>, NoCount)
    /\ emitted = <<>>
    /\ QrIdle

NextPdf == PdfValidate \/ PdfWhile \/ PdfCell \/ PdfShowPage

SpecPdf == InitPdf /\ [][NextPdf]_vars

\* ------------------------------------------------------------------ properties

Terminal == {"done", "returned", "crashed"}

AllCodes(length) == [1..length -> charset]
ValidCode(s)     == \A i \in 1..Len(s) : s[i] \in charset
StrLeq(s, t)     == ~StrLess(t, s)
Increasing(seq)  == \A i \in 1..(Len(seq) - 1) : StrLess(seq[i], seq[i + 1])
NoDup(seq)       == \A i, j \in 1..Len(seq) : i # j => seq[i] # seq[j]
Written          == "Failed to save" \notin errors
TooMany          == "Too many attempts" \in errors

\* codes of the length of start, from start on
CodesFromStart == {c \in AllCodes(Len(start)) : StrLeq(start, c)}
\* ... that the loaded ledger set does not hold
FreeFromStart  == {c \in CodesFromStart : c \notin existing_serials}
\* free codes strictly before c
FreeBefore(c)  == {d \in FreeFromStart : StrLess(d, c)}

\* C1: in mode 2 with count >= 1, when every candidate from start on collides with
\* the loaded ledger set, the loop makes exactly max_attempts candidate checks (never
\* more), the run ends normally with the too-many-attempts error, an empty list of
\* accepted codes and an unchanged ledger.
C1_AllCollideStopsAtCeiling ==
    (/\ mode = "2"
     /\ count.ok /\ count.val >= 1
     /\ attempts > max_attempts \/ pc \in Terminal
     /\ ValidCode(start)
     /\ FreeFromStart = {})
    => /\ attempts <= max_attempts
       /\ pc \in Terminal =>
            /\ pc = "done"
            /\ attempts = max_attempts
            /\ TooMany
            /\ new_data = <<>>
            /\ ledger = ledger0

\* the footprint of the grid on each axis, in tenths of a millimetre
FootprintX(c) == c.mgn_left + c.lbls_x * c.lbl_width + (c.lbls_x - 1) * c.spc_x
FootprintY(c) == c.mgn_top + c.lbls_y * c.lbl_height + (c.lbls_y - 1) * c.spc_y

\* C2: when the footprint of the grid meets or exceeds the page on either axis
\* (210 mm wide, 297 mm tall), create_label_pdf raises the layout error: no image
\* is drawn, no page is emitted and no document is saved.
C2_OversizedLayoutAborts ==
    (mode = "pdf" /\ (FootprintX(cfg) >= 2100 \/ FootprintY(cfg) >= 2970))
    => /\ pc \in {"pdf", "raised"}
       /\ drawn = <<>>
       /\ pages = 0
       /\ ~saved

\* C3: a ledger without a repeated serial before the run has none after it; the
\* entries one run appends are pairwise distinct and none was in the ledger before.
C3_LedgerStaysUnique ==
    (mode \in {"1", "2", "3"} /\ NoDup(ledger0))
    => /\ NoDup(ledger)
       /\ NoDup(new_data)
       /\ Serials(new_data) \cap Serials(ledger0) = {}

\* the candidates mode 2 has to propose to accept count.val codes
Needed == {c \in CodesFromStart : Cardinality(FreeBefore(c)) < count.val}

\* C4: in mode 2, when count codes outside the loaded ledger set exist from start on
\* and fewer than max_attempts candidates are needed to reach them, the run ends
\* normally and the accepted codes are exactly the first count such codes in
\* increasing order; a colliding candidate is never accepted.
C4_OpenEndedAcceptsFirstFree ==
    (/\ mode = "2"
     /\ pc \in Terminal \cup {"save"}
     /\ count.ok
     /\ ValidCode(start)
     /\ Cardinality(FreeFromStart) >= count.val
     /\ Cardinality(Needed) < max_attempts)
    => /\ pc # "crashed"
       /\ Serials(new_data) = {c \in FreeFromStart : Cardinality(FreeBefore(c)) < count.val}
       /\ Len(new_data) = (IF count.val > 0 THEN count.val ELSE 0)
       /\ Increasing(new_data)
       /\ rendered = Serials(new_data)
       /\ pc = "done" /\ Written => ledger = ledger0 \o new_data

C4_Witness ==
    /\ mode = "2"
    /\ pc = "done"
    /\ Written
    /\ count.val = 3
    /\ Len(new_data) = 3
    /\ \E c \in existing_serials : StrLess(new_data[1], c) /\ StrLess(c, new_data[3])

\* codes of the length of start between start and end that the ledger set lacks
InRange == {c \in CodesFromStart : StrLeq(c, end) /\ c \notin existing_serials}

\* C5: in mode 1 no code greater than end is ever rendered or collected; the run ends
\* without an error, having accepted exactly the codes between start and end that
\* are not in the loaded ledger set, in increasing order, and the loop stopped at
\* the first code greater than end when there is one.
C5_RangeStopsAtEnd ==
    (mode = "1" /\ pc # "main" /\ ValidCode(start))
    => /\ \A c \in rendered \cup Serials(new_data) : ~StrGreater(c, end)
       /\ pc # "crashed"
       /\ pc \in {"save", "done"} =>
            /\ Serials(new_data) = InRange
            /\ Increasing(new_data)
            /\ rendered = InRange
            /\ errors \subseteq {"Failed to save"}
            /\ LET past == {c \in CodesFromStart : StrGreater(c, end)} IN
               IF past = {}
               THEN gen.finished
               ELSE /\ ~gen.finished
                    /\ serial \in past
                    /\ \A c \in past : StrLeq(serial, c)
       /\ pc = "done" /\ Written => ledger = ledger0 \o new_data

C5_Witness ==
    /\ mode = "1"
    /\ pc = "done"
    /\ Written
    /\ StrGreater(serial, end)
    /\ Len(new_data) >= 2
    /\ \E c \in existing_serials : StrLess(new_data[1], c) /\ StrLess(c, new_data[Len(new_data)])

\* C6: both generators yield codes of the length of start, the first being start,
\* each next one the immediate lexicographic successor of the one before (strictly
\* greater, no code of that length between them); without a count they stop only
\* after Z...Z, and nothing is yielded after that.
C6_GeneratorsCountUp ==
    (mode \in {"serial_generator", "serial_generator_open_ended"})
    => /\ \A i \in 1..Len(emitted) : Len(emitted[i]) = Len(start)
       /\ Len(emitted) >= 1 => emitted[1] = start
       /\ Len(emitted) >= 2 =>
            LET a == emitted[Len(emitted) - 1]
                b == emitted[Len(emitted)]
            IN  /\ StrLess(a, b)
                /\ \A c \in AllCodes(Len(start)) : ~(StrLess(a, c) /\ StrLess(c, b))
       /\ (pc = "gen_done" /\ gen.count = NoCount) =>
            /\ Len(emitted) >= 1
            /\ emitted[Len(emitted)] = [i \in 1..Len(start) |-> 90]

C6_Witness ==
    /\ mode = "serial_generator_open_ended"
    /\ pc = "gen_done"
    /\ Len(start) = 2
    /\ Len(emitted) = 676

Capacity(c)   == c.lbls_x * c.lbls_y
CeilDiv(n, d) == (n + d - 1) \div d

\* C7: create_label_pdf never emits more than ceil(N / (lbls_x * lbls_y)) pages, and
\* when the document is saved it has emitted exactly that many.
C7_PageCount ==
    (mode = "pdf" /\ pc \notin {"pdf", "raised", "pdf_returned"})
    => /\ Len(images) >= 1
       /\ pages <= CeilDiv(Len(images), Capacity(cfg))
       /\ saved => pages = CeilDiv(Len(images), Capacity(cfg))

C7_Witness ==
    /\ mode = "pdf"
    /\ saved
    /\ Capacity(cfg) = 2
    /\ Len(images) = 4
    /\ pages = 2

\* C8: the k-th image of the listing (0-based) is the k-th one drawn, on page
\* k div cap, in row (k mod cap) div lbls_x and column (k mod cap) mod lbls_x; when
\* the document is saved every image was drawn once, and no two images of a page
\* share a cell or a position.
C8_PlacementOrder ==
    (mode = "pdf")
    => /\ \A k \in 0..(Len(drawn) - 1) :
            /\ drawn[k + 1].img = images[k + 1]
            /\ drawn[k + 1].page = k \div Capacity(cfg)
            /\ drawn[k + 1].row = (k % Capacity(cfg)) \div cfg.lbls_x
            /\ drawn[k + 1].col = (k % Capacity(cfg)) % cfg.lbls_x
       /\ saved => \A i \in 1..Len(images) :
                        Cardinality({k \in 1..Len(drawn) : drawn[k].img = images[i]}) = 1
       /\ \A i, j \in 1..Len(drawn) :
            (i # j /\ drawn[i].page = drawn[j].page)
            => /\ <<drawn[i].row, drawn[i].col>> # <<drawn[j].row, drawn[j].col>>
               /\ <<drawn[i].x_pos, drawn[i].y_pos>> # <<drawn[j].x_pos, drawn[j].y_pos>>

C8_Witness ==
    /\ mode = "pdf"
    /\ saved
    /\ Len(drawn) = 5
    /\ drawn[4].row = 1 /\ drawn[4].col = 1 /\ drawn[4].page = 0
    /\ drawn[5].page = 1

\* C9: in mode 2 the too-many-attempts error is reported exactly when max_attempts
\* candidates were proposed without count codes having been accepted, and when it
\* is reported the codes accepted so far are appended to the ledger.
C9_ErrorIffCeilingMissed ==
    (mode = "2" /\ count.ok /\ pc \in Terminal \cup {"save"})
    => /\ TooMany <=> (attempts >= max_attempts /\ Len(new_data) < count.val)
       /\ (TooMany /\ Written) => ledger = ledger0 \o new_data

\* C10: when a run of main has ended and the ledger write did not fail, every
\* serial for which a label image was rendered has a ledger entry.
C10_RenderedAreInLedger ==
    (mode \in {"1", "2", "3", "9"} /\ pc \in Terminal /\ Written)
    => rendered \subseteq Serials(ledger)

====
